---- MODULE Spec2Model ----
(***************************************************************************)
(* Model of the persistence core of the ODEMIND content-management front   *)
(* end: the State Loader, the Application State Store (the mutators of     *)
(* the App component) and the debounced Persistence Synchronizer.          *)
(*                                                                         *)
(* JavaScript values are tagged records.  A JSON text is a sequence of     *)
(* tokens; JSONstringify produces it and JSONparse is a recursive-descent  *)
(* parser over it, so a truncated or garbled text fails to parse.          *)
(* Strings are atoms.  A Project is modelled by its id and title, an       *)
(* ArchiveItem by its id and company, a Service by its id and title; the   *)
(* remaining fields are carried along by the code in the same way.         *)
(* Time is counted in milliseconds and advances in steps of TickMs.        *)
(*                                                                         *)
(* A mutator call, the render it causes and the re-run of the effect on    *)
(* [state] (cleanup, setIsSyncing, setTimeout) form one step: the mutators *)
(* are called from click and submit handlers, whose effects React flushes  *)
(* before the next task.  An updater that throws tears the tree down; the  *)
(* model stops there.                                                      *)
(*                                                                         *)
(* SpecStore drives all seven mutators from every payload of PayloadPool   *)
(* inside one debounce window; Spec lets time pass and timers fire.        *)
(*                                                                         *)
(* The repository holds two versions of the admin view,                    *)
(* src/components/AdminView.tsx and src/unnamed/part_001.  They differ in  *)
(* the image codec, the ingestion queue and the import handler; build says *)
(* which of the two the running page was built from.  SpecIngest drives    *)
(* the ingestion queue of a project form, SpecImport the import handler.   *)
(***************************************************************************)
EXTENDS Integers, Sequences, FiniteSets, TLC

VARIABLES
  state,        \* App: the AppState held by useState
  isSyncing,    \* App: the syncing signal
  storage,      \* localStorage slot STORAGE_KEY
  timers,       \* armed setTimeout timers: set of [id, due, snap]
  timer,        \* id of the timer the current effect cleanup will clear
  nextTimer,    \* next setTimeout handle
  now,          \* ms since the page was loaded
  alerts,       \* number of alert() notices shown so far
  crashed,      \* an uncaught fault has torn the application down
  boot,         \* what the State Loader read and returned at startup
  changeTimes,  \* times of the state changes so far
  writes,       \* log of the synchronizer's writes: [t, ok, n]
  lastText,     \* text handed to the last setItem call
  lastOp,       \* the last mutator call, with the state it was applied to
  build,        \* the AdminView source file of the running page
  form,         \* ProjectForm: formData.imageUrls and isProcessing
  jobs,         \* running handleFileChange calls: [id, files, i, newUrls, pc]
  batches,      \* number of handleFileChange calls so far
  lastBatch,    \* the last finished batch: its files, imageUrls before and after
  oldSlot,      \* localStorage slot 'odemind_archive_v4_prod'
  canvas,       \* the last compressImage call: image size, maxWidth, canvas size
  aform,        \* ArchiveForm: formData.imageUrl and isProcessing
  uploads,      \* running ArchiveForm.handleFileChange calls: [id, file, pc]
  picks         \* the files selected in the archive form so far, in order

appVars == <<state, isSyncing, storage, timers, timer, nextTimer, now, alerts,
             crashed, boot, changeTimes, writes, lastText, lastOp>>
formVars == <<build, form, jobs, batches, lastBatch, oldSlot>>
sideVars == <<canvas, aform, uploads, picks>>
vars == <<appVars, formVars, sideVars>>

(***************************************************************************)
(* Bounds                                                                  *)
(***************************************************************************)
MaxTicks == 10
MaxChanges == 3
Quota == 95
MaxFiles == 2
MaxBatches == 2
MaxAlerts == 2
MaxHeight == 12
MaxPicks == 2

(***************************************************************************)
(* JavaScript values                                                       *)
(***************************************************************************)
Null == [t |-> "null"]
Undef == [t |-> "undefined"]
Str(s) == [t |-> "str", s |-> s]
Num(n) == [t |-> "num", n |-> n]
Arr(a) == [t |-> "arr", a |-> a]
Obj(o) == [t |-> "obj", o |-> o]

IsArray(v) == v.t = "arr"

\* JavaScript truthiness
Truthy(v) ==
  CASE v.t = "null" -> FALSE
    [] v.t = "undefined" -> FALSE
    [] v.t = "str" -> v.s # ""
    [] v.t = "num" -> v.n # 0
    [] OTHER -> TRUE

\* v[key] for a value v that is neither null nor undefined
Get(v, key) ==
  IF v.t = "obj" /\ key \in DOMAIN v.o THEN v.o[key] ELSE Undef

\* variant: the spread operands swapped, { ...b, ...a }
Merge_defaultsWin(a, b) ==
  Obj([k \in (DOMAIN a.o) \cup (DOMAIN b.o) |->
         IF k \in DOMAIN a.o THEN a.o[k] ELSE b.o[k]])

\* { ...a, ...b } for two objects
Merge(a, b) ==
  Obj([k \in (DOMAIN a.o) \cup (DOMAIN b.o) |->
         IF k \in DOMAIN b.o THEN b.o[k] ELSE a.o[k]])

\* { ...a, key: v }
With(a, key, v) ==
  Obj([k \in (DOMAIN a.o) \cup {key} |-> IF k = key THEN v ELSE a.o[k]])

(***************************************************************************)
(* JSON                                                                    *)
(***************************************************************************)
Tok(k) == [k |-> k]
StrTok(s) == [k |-> "string", s |-> s]
NumTok(n) == [k |-> "number", n |-> n]

\* Property order of the objects of the model (insertion order in the code)
KeyOrder == <<"projects", "archiveItems", "services", "siteTitle", "tagline",
              "id", "title", "company", "version">>

RECURSIVE JSONstringify(_)
RECURSIVE StringifyElems(_, _)
RECURSIVE StringifyMembers(_, _, _)

StringifyElems(a, i) ==
  IF i > Len(a) THEN <<>>
  ELSE (IF i > 1 THEN <<Tok(",")>> ELSE <<>>)
       \o (IF a[i].t = "undefined" THEN <<Tok("null")>> ELSE JSONstringify(a[i]))
       \o StringifyElems(a, i + 1)

StringifyMembers(o, keys, i) ==
  IF i > Len(keys) THEN <<>>
  ELSE (IF i > 1 THEN <<Tok(",")>> ELSE <<>>)
       \o <<StrTok(keys[i]), Tok(":")>> \o JSONstringify(o[keys[i]])
       \o StringifyMembers(o, keys, i + 1)

JSONstringify(v) ==
  CASE v.t = "null" -> <<Tok("null")>>
    [] v.t = "str" -> <<StrTok(v.s)>>
    [] v.t = "num" -> <<NumTok(v.n)>>
    [] v.t = "arr" -> <<Tok("[")>> \o StringifyElems(v.a, 1) \o <<Tok("]")>>
    [] v.t = "obj" ->
         LET keys == SelectSeq(KeyOrder,
                        LAMBDA k : k \in DOMAIN v.o /\ v.o[k].t # "undefined")
         IN <<Tok("{")>> \o StringifyMembers(v.o, keys, 1) \o <<Tok("}")>>

ParseFail == [ok |-> FALSE, v |-> Null, i |-> 0]
ParseOk(v, i) == [ok |-> TRUE, v |-> v, i |-> i]
TokAt(toks, i) == IF i <= Len(toks) THEN toks[i].k ELSE "eof"

RECURSIVE ParseValue(_, _)
RECURSIVE ParseElements(_, _, _)
RECURSIVE ParseMembers(_, _, _)

ParseElements(toks, i, acc) ==
  LET r == ParseValue(toks, i) IN
  IF ~r.ok THEN ParseFail
  ELSE IF TokAt(toks, r.i) = "," THEN ParseElements(toks, r.i + 1, Append(acc, r.v))
  ELSE IF TokAt(toks, r.i) = "]" THEN ParseOk(Arr(Append(acc, r.v)), r.i + 1)
  ELSE ParseFail

ParseMembers(toks, i, acc) ==
  IF TokAt(toks, i) # "string" \/ TokAt(toks, i + 1) # ":" THEN ParseFail
  ELSE LET r == ParseValue(toks, i + 2)
           key == toks[i].s
           o == IF r.ok
                THEN [k \in (DOMAIN acc) \cup {key} |->
                         IF k = key THEN r.v ELSE acc[k]]
                ELSE acc
       IN IF ~r.ok THEN ParseFail
          ELSE IF TokAt(toks, r.i) = "," THEN ParseMembers(toks, r.i + 1, o)
          ELSE IF TokAt(toks, r.i) = "}" THEN ParseOk(Obj(o), r.i + 1)
          ELSE ParseFail

ParseValue(toks, i) ==
  LET k == TokAt(toks, i) IN
  CASE k = "null" -> ParseOk(Null, i + 1)
    [] k = "string" -> ParseOk(Str(toks[i].s), i + 1)
    [] k = "number" -> ParseOk(Num(toks[i].n), i + 1)
    [] k = "[" -> IF TokAt(toks, i + 1) = "]" THEN ParseOk(Arr(<<>>), i + 2)
                  ELSE ParseElements(toks, i + 1, <<>>)
    [] k = "{" -> IF TokAt(toks, i + 1) = "}" THEN ParseOk(Obj(<<>>), i + 2)
                  ELSE ParseMembers(toks, i + 1, <<>>)
    [] OTHER -> ParseFail

\* JSON.parse: ok = FALSE stands for the SyntaxError it throws
JSONparse(text) ==
  LET r == ParseValue(text, 1) IN
  IF r.ok /\ r.i = Len(text) + 1 THEN [ok |-> TRUE, v |-> r.v]
  ELSE [ok |-> FALSE, v |-> Null]

(***************************************************************************)
(* Built-in default dataset                                                *)
(***************************************************************************)
Project(id, title) == Obj([id |-> Str(id), title |-> Str(title)])
ArchiveItem(id, company) == Obj([id |-> Str(id), company |-> Str(company)])

INITIAL_PROJECTS ==
  Arr(<<Project("PRJ-001", "CYBER"), Project("PRJ-002", "URBAN")>>)
INITIAL_ARCHIVE ==
  Arr(<<ArchiveItem("1", "Le Labo"), ArchiveItem("2", "Huckberry")>>)
INITIAL_SERVICES ==
  Arr(<<Project("S-01", "CONTENT"), Project("S-02", "BRANDING")>>)

defaultState ==
  Obj([projects |-> INITIAL_PROJECTS,
       archiveItems |-> INITIAL_ARCHIVE,
       services |-> INITIAL_SERVICES,
       siteTitle |-> Str("ODEMIND"),
       tagline |-> Str("HUB")])

(***************************************************************************)
(* State Loader                                                            *)
(***************************************************************************)
NoItem == [has |-> FALSE, text |-> <<>>]
Item(text) == [has |-> TRUE, text |-> text]

\* parsed && Array.isArray(parsed.projects)
ShapeOk(parsed) == Truthy(parsed) /\ IsArray(Get(parsed, "projects"))

\* variant: the shape check left out, any parsed object is merged
Loader_noShapeCheck(st) ==
  IF st.has /\ st.text # <<>>
  THEN LET r == JSONparse(st.text) IN
       IF ~r.ok THEN [threw |-> FALSE, state |-> defaultState]
       ELSE IF r.v.t = "obj"
            THEN [threw |-> FALSE, state |-> Merge(defaultState, r.v)]
            ELSE [threw |-> FALSE, state |-> defaultState]
  ELSE [threw |-> FALSE, state |-> defaultState]

\* variant: the parsed value returned as it is, not merged over the default
Loader_noMerge(st) ==
  IF st.has /\ st.text # <<>>
  THEN LET r == JSONparse(st.text) IN
       IF ~r.ok THEN [threw |-> FALSE, state |-> defaultState]
       ELSE IF ShapeOk(r.v)
            THEN [threw |-> FALSE, state |-> r.v]
            ELSE [threw |-> FALSE, state |-> defaultState]
  ELSE [threw |-> FALSE, state |-> defaultState]

\* the useState initializer; threw = a fault escaping the initializer
Loader(st) ==
  IF st.has /\ st.text # <<>>
  THEN LET r == JSONparse(st.text) IN
       IF ~r.ok THEN [threw |-> FALSE, state |-> defaultState]
       ELSE IF ShapeOk(r.v)
            THEN [threw |-> FALSE, state |-> Merge(defaultState, r.v)]
            ELSE [threw |-> FALSE, state |-> defaultState]
  ELSE [threw |-> FALSE, state |-> defaultState]

(***************************************************************************)
(* Application State Store: the updater functions handed to setState.      *)
(* threw = the updater raises a TypeError.                                 *)
(***************************************************************************)
Threw(prev) == [threw |-> TRUE, state |-> prev]
Return(s) == [threw |-> FALSE, state |-> s]

\* reading el.id throws on null and undefined
NoId(el) == el.t \in {"null", "undefined"}

\* coll.map(el => el.id === id ? updated : el)
MapReplace(coll, id, updated) ==
  [i \in 1..Len(coll) |-> IF Get(coll[i], "id") = Str(id) THEN updated ELSE coll[i]]

\* variant: the comparison turned round, coll.filter(el => el.id === id)
FilterOut_inverted(coll, id) == SelectSeq(coll, LAMBDA el : Get(el, "id") = Str(id))

\* coll.filter(el => el.id !== id)
FilterOut(coll, id) == SelectSeq(coll, LAMBDA el : Get(el, "id") # Str(id))

\* [...v]: ok = FALSE when v is not iterable
Spread(v) ==
  CASE v.t = "arr" -> [ok |-> TRUE, a |-> v.a]
    [] v.t = "str" -> [ok |-> TRUE, a |-> IF v.s = "" THEN <<>> ELSE <<v>>]
    [] OTHER -> [ok |-> FALSE, a |-> <<>>]

updateIn(prev, field, id, updated) ==
  LET coll == Get(prev, field) IN
  IF ~IsArray(coll) \/ (\E i \in 1..Len(coll.a) : NoId(coll.a[i]))
  THEN Threw(prev)
  ELSE Return(With(prev, field, Arr(MapReplace(coll.a, id, updated))))

addTo(prev, field, item) ==
  LET sp == Spread(Get(prev, field)) IN
  IF ~sp.ok THEN Threw(prev)
  ELSE Return(With(prev, field, Arr(<<item>> \o sp.a)))

deleteFrom(prev, field, id) ==
  LET coll == Get(prev, field) IN
  IF ~IsArray(coll) \/ (\E i \in 1..Len(coll.a) : NoId(coll.a[i]))
  THEN Threw(prev)
  ELSE Return(With(prev, field, Arr(FilterOut(coll.a, id))))

\* variant: an id that matches nothing makes the project be added
updateProject_upsert(prev, id, updated) ==
  LET r == updateIn(prev, "projects", id, updated) IN
  IF r.threw \/ r.state # prev THEN r
  ELSE Return(With(prev, "projects", Arr(Append(Get(prev, "projects").a, updated))))

updateProject(prev, id, updated) == updateIn(prev, "projects", id, updated)
\* variant: the project appended, [...prev.projects, project]
addProject_append(prev, project) ==
  LET sp == Spread(Get(prev, "projects")) IN
  IF ~sp.ok THEN Threw(prev)
  ELSE Return(With(prev, "projects", Arr(Append(sp.a, project))))

addProject(prev, project) == addTo(prev, "projects", project)

\* variant: only the first element with the id is removed
deleteProject_firstOnly(prev, id) ==
  LET r == deleteFrom(prev, "projects", id) IN
  IF r.threw \/ r.state = prev THEN r
  ELSE LET coll == Get(prev, "projects").a
           k == CHOOSE i \in 1..Len(coll) :
                  /\ Get(coll[i], "id") = Str(id)
                  /\ \A j \in 1..(i - 1) : Get(coll[j], "id") # Str(id)
       IN Return(With(prev, "projects",
                      Arr(SubSeq(coll, 1, k - 1) \o SubSeq(coll, k + 1, Len(coll)))))

deleteProject(prev, id) == deleteFrom(prev, "projects", id)

\* variant: the update lands in projects
updateArchiveItem_projects(prev, id, updated) == updateIn(prev, "projects", id, updated)

updateArchiveItem(prev, id, updated) == updateIn(prev, "archiveItems", id, updated)
addArchiveItem(prev, item) == addTo(prev, "archiveItems", item)
deleteArchiveItem(prev, id) == deleteFrom(prev, "archiveItems", id)

\* variant: the tagline is left as it was
updateSettings_titleOnly(prev, siteTitle, tagline) ==
  Return(With(prev, "siteTitle", Str(siteTitle)))

updateSettings(prev, siteTitle, tagline) ==
  Return(With(With(prev, "siteTitle", Str(siteTitle)), "tagline", Str(tagline)))

(***************************************************************************)
(* Persistence Synchronizer: the useEffect on [state]                      *)
(***************************************************************************)
Delay == 500
TickMs == Delay \div 5

\* variant: the effect returns no cleanup, the pending timer stays armed
clearTimeout_missing(ts, id) == ts

\* clearTimeout(id)
clearTimeout(ts, id) == {tm \in ts : tm.id # id}

\* variant: another delay than the 500 ms window
setTimeout_longer(id, snap, t) == [id |-> id, due |-> t + 2 * Delay, snap |-> snap]

\* setTimeout(callback, 500) called at time t by the effect that saw snap
setTimeout(id, snap, t) == [id |-> id, due |-> t + Delay, snap |-> snap]

\* localStorage.setItem: throws QuotaExceededError when the text does not fit
Fits(text) == Len(text) <= Quota

\* variant: the quota failure is swallowed without a notice
TimerCallback_silent(snap, st) ==
  LET text == JSONstringify(snap) IN
  IF Fits(text)
  THEN [storage |-> Item(text), isSyncing |-> FALSE, alert |-> FALSE,
        ok |-> TRUE, text |-> text]
  ELSE [storage |-> st, isSyncing |-> FALSE, alert |-> FALSE,
        ok |-> FALSE, text |-> text]

\* variant: the catch branch does not reset the syncing signal
TimerCallback_staysSyncing(snap, st) ==
  LET text == JSONstringify(snap) IN
  IF Fits(text)
  THEN [storage |-> Item(text), isSyncing |-> FALSE, alert |-> FALSE,
        ok |-> TRUE, text |-> text]
  ELSE [storage |-> st, isSyncing |-> TRUE, alert |-> TRUE,
        ok |-> FALSE, text |-> text]

\* variant: a write over the quota makes room by removing the item
TimerCallback_evicts(snap, st) ==
  LET text == JSONstringify(snap) IN
  IF Fits(text)
  THEN [storage |-> Item(text), isSyncing |-> FALSE, alert |-> FALSE,
        ok |-> TRUE, text |-> text]
  ELSE [storage |-> NoItem, isSyncing |-> FALSE, alert |-> TRUE,
        ok |-> FALSE, text |-> text]

\* the timer callback, run for the state snap its effect closed over
TimerCallback(snap, st) ==
  LET text == JSONstringify(snap) IN
  IF Fits(text)
  THEN [storage |-> Item(text), isSyncing |-> FALSE, alert |-> FALSE,
        ok |-> TRUE, text |-> text]
  ELSE [storage |-> st, isSyncing |-> FALSE, alert |-> TRUE,
        ok |-> FALSE, text |-> text]

(***************************************************************************)
(* Admin view: image codec and ingestion queue of the project form         *)
(***************************************************************************)
Builds == {"AdminView.tsx", "part_001"}

MaxFileSize == 10 * 1024 * 1024

\* a selected file: the string its image encodes to, its byte size, and
\* whether the browser can decode it
File(enc, size, decodable) == [enc |-> enc, size |-> size, decodable |-> decodable]

\* if (file.size > 10 * 1024 * 1024) { alert(...); continue; }
TooLarge(b, file) == b = "part_001" /\ file.size > MaxFileSize

\* compressImage: img.onload resolves with the encoded image; img.onerror,
\* where the build sets it, resolves with the empty string; without it the
\* promise stays pending for ever
compressImage(b, file) ==
  IF file.decodable THEN [settles |-> TRUE, value |-> Str(file.enc)]
  ELSE IF b = "part_001" THEN [settles |-> TRUE, value |-> Str("")]
  ELSE [settles |-> FALSE, value |-> Undef]

\* Math.round of the quotient n / d of two naturals, d > 0: the nearest
\* integer, a half rounded up
MathRound(n, d) == (2 * n + d) \div (2 * d)

\* variant: the quotient cut off, Math.floor
scale_floor(width, height, maxWidth) ==
  IF width > maxWidth
  THEN [width |-> maxWidth, height |-> (height * maxWidth) \div width]
  ELSE [width |-> width, height |-> height]

\* the canvas size compressImage computes from img.width and img.height
scale(width, height, maxWidth) ==
  IF width > maxWidth
  THEN [width |-> maxWidth, height |-> MathRound(height * maxWidth, width)]
  ELSE [width |-> width, height |-> height]

\* the maxWidth of a compressImage call: the default of the build in the
\* project form, compressImage(base64, 800, 0.6) or the default in the
\* archive form
maxWidthOf(b, caller) ==
  IF b = "part_001" THEN 600
  ELSE IF caller = "ArchiveForm" THEN 800 ELSE 1000

NoCanvas == [img |-> [width |-> 0, height |-> 0], maxWidth |-> 0,
             out |-> [width |-> 0, height |-> 0]]

\* if (compressed) newUrls.push(compressed)   /   newUrls.push(compressed)
pushUrl(b, newUrls, compressed) ==
  IF b = "part_001" /\ ~Truthy(compressed) THEN newUrls
  ELSE Append(newUrls, compressed)

\* variant: the batch put in front, [...newUrls, ...(prev.imageUrls || [])]
appendUrls_front(prevUrls, newUrls) == newUrls \o prevUrls

\* imageUrls: [...(prev.imageUrls || []), ...newUrls]
appendUrls(prevUrls, newUrls) == prevUrls \o newUrls

\* (prev.imageUrls || []).filter((_, i) => i !== index)
removeImage(urls, index) ==
  [i \in 1..(Len(urls) - 1) |-> IF i < index THEN urls[i] ELSE urls[i + 1]]

\* variant: the button rendered whatever isProcessing is
canStartBatch_always(isProcessing) == TRUE

\* {!isProcessing && <button onClick={() => fileInputRef.current?.click()}>}
canStartBatch(isProcessing) == ~isProcessing

\* the for loop from index i up to the first file it does not skip
RECURSIVE NextFile(_, _, _)
NextFile(b, files, i) ==
  IF i <= Len(files) /\ TooLarge(b, files[i]) THEN NextFile(b, files, i + 1)
  ELSE i

(***************************************************************************)
(* Admin view: import of a database file                                   *)
(***************************************************************************)
STORAGE_KEY == "odemind_archive_v5_final"

\* the key handleImport writes under
importKey(b) ==
  IF b = "part_001" THEN "odemind_archive_v5_final" ELSE "odemind_archive_v4_prod"

\* if (json.projects)   /   if (json.projects && json.archiveItems)
importAccepts(b, json) ==
  IF b = "part_001" THEN Truthy(Get(json, "projects"))
  ELSE Truthy(Get(json, "projects")) /\ Truthy(Get(json, "archiveItems"))

\* variant: a text that does not parse is passed over without a notice
handleImport_silent(b, text, confirm) ==
  LET r == JSONparse(text)
      quiet == [alert |-> FALSE, write |-> FALSE, key |-> importKey(b), text |-> <<>>]
  IN
  IF ~r.ok THEN quiet
  ELSE IF NoId(r.v) THEN [quiet EXCEPT !.alert = TRUE]
  ELSE IF ~importAccepts(b, r.v) \/ ~confirm THEN quiet
  ELSE IF ~Fits(JSONstringify(r.v)) THEN [quiet EXCEPT !.alert = TRUE]
  ELSE [quiet EXCEPT !.write = TRUE, !.text = JSONstringify(r.v)]

\* reader.onload of handleImport: what is alerted and what is written.
\* JSON.parse, the read of json.projects on null and setItem over quota
\* throw inside the try and end in the alert of the catch.
handleImport(b, text, confirm) ==
  LET r == JSONparse(text)
      quiet == [alert |-> FALSE, write |-> FALSE, key |-> importKey(b), text |-> <<>>]
  IN
  IF ~r.ok \/ NoId(r.v) THEN [quiet EXCEPT !.alert = TRUE]
  ELSE IF ~importAccepts(b, r.v) \/ ~confirm THEN quiet
  ELSE IF ~Fits(JSONstringify(r.v)) THEN [quiet EXCEPT !.alert = TRUE]
  ELSE [quiet EXCEPT !.write = TRUE, !.text = JSONstringify(r.v)]

NoBatch == [id |-> 0, files |-> <<>>, before |-> <<>>, after |-> <<>>]

(***************************************************************************)
(* Inputs                                                                  *)
(***************************************************************************)
\* the files offered to the import: texts of database documents
ImportPool ==
  { \* {"projects":[],"archiveItems":[]}
    <<Tok("{"), StrTok("projects"), Tok(":"), Tok("["), Tok("]"), Tok(","),
      StrTok("archiveItems"), Tok(":"), Tok("["), Tok("]"), Tok("}")>>,
    \* {"projects":[{"id":"PRJ-001","title":"OLD"}],"siteTitle":"OLD"}
    <<Tok("{"), StrTok("projects"), Tok(":"), Tok("["),
      Tok("{"), StrTok("id"), Tok(":"), StrTok("PRJ-001"), Tok(","),
      StrTok("title"), Tok(":"), StrTok("OLD"), Tok("}"), Tok("]"), Tok(","),
      StrTok("siteTitle"), Tok(":"), StrTok("OLD"), Tok("}")>>,
    \* {"projects":{},"archiveItems":[]}
    <<Tok("{"), StrTok("projects"), Tok(":"), Tok("{"), Tok("}"), Tok(","),
      StrTok("archiveItems"), Tok(":"), Tok("["), Tok("]"), Tok("}")>>,
    \* {"siteTitle":"OLD"}
    <<Tok("{"), StrTok("siteTitle"), Tok(":"), StrTok("OLD"), Tok("}")>>,
    \* null
    <<Tok("null")>>,
    \* {"projects":[            (truncated)
    <<Tok("{"), StrTok("projects"), Tok(":"), Tok("[")>> }

\* img.width and img.height of the images offered to the codec
WidthPool == {1, 599, 600, 601, 800, 801, 1000, 1001, 1200, 1600, 4000}
HeightPool == (1..MaxHeight) \cup {600, 3000}

FilePool ==
  { File("A", 1024, TRUE),
    File("B", MaxFileSize, TRUE),
    File("C", MaxFileSize + 1, TRUE),
    File("D", 2048, FALSE) }

\* the FileLists a change event can carry: distinct files, in any order
FileLists ==
  UNION { {fs \in [1..n -> FilePool] : \A i, j \in 1..n : i # j => fs[i] # fs[j]}
          : n \in 0..MaxFiles }

ProjectPool == {Project("PRJ-003", "NEXT")}
ProjectIds == {"PRJ-001", "PRJ-003"}
ArchivePool == {ArchiveItem("3", "NEW")}
ArchiveIds == {"1", "3"}
SettingsPool == {<<"STUDIO", "ASIA">>}

\* texts the storage slot may hold when the page is opened
PayloadPool ==
  { NoItem,
    Item(<<>>),
    \* {"projects":[            (truncated)
    Item(<<Tok("{"), StrTok("projects"), Tok(":"), Tok("[")>>),
    \* null
    Item(<<Tok("null")>>),
    \* {"siteTitle":"OLD"}
    Item(<<Tok("{"), StrTok("siteTitle"), Tok(":"), StrTok("OLD"), Tok("}")>>),
    \* {"projects":{}}
    Item(<<Tok("{"), StrTok("projects"), Tok(":"), Tok("{"), Tok("}"), Tok("}")>>),
    \* {"projects":[],"version":5}
    Item(<<Tok("{"), StrTok("projects"), Tok(":"), Tok("["), Tok("]"), Tok(","),
           StrTok("version"), Tok(":"), NumTok(5), Tok("}")>>),
    \* {"projects":[{"id":"PRJ-001","title":"OLD"}],"archiveItems":null}
    Item(<<Tok("{"), StrTok("projects"), Tok(":"), Tok("["),
           Tok("{"), StrTok("id"), Tok(":"), StrTok("PRJ-001"), Tok(","),
           StrTok("title"), Tok(":"), StrTok("OLD"), Tok("}"), Tok("]"), Tok(","),
           StrTok("archiveItems"), Tok(":"), Tok("null"), Tok("}")>>),
    \* {"projects":[null],"siteTitle":"OLD"}
    Item(<<Tok("{"), StrTok("projects"), Tok(":"), Tok("["), Tok("null"), Tok("]"),
           Tok(","), StrTok("siteTitle"), Tok(":"), StrTok("OLD"), Tok("}")>>) }

(***************************************************************************)
(* Initial state: the page has been opened, the loader has run and the     *)
(* effect of the first render has armed its timer.                         *)
(***************************************************************************)
\* variant: the effect does not run after the first render
Init_idle ==
  \E raw \in PayloadPool :
    LET l == Loader(raw) IN
    /\ storage = raw
    /\ boot = [raw |-> raw, state |-> l.state, threw |-> l.threw]
    /\ state = l.state
    /\ crashed = l.threw
    /\ isSyncing = FALSE
    /\ timers = {}
    /\ timer = 1
    /\ nextTimer = 2
    /\ now = 0
    /\ alerts = 0
    /\ changeTimes = <<>>
    /\ writes = <<>>
    /\ lastText = <<>>
    /\ lastOp = [op |-> "mount", id |-> "", arg |-> Null, prev |-> Null, done |-> TRUE]
    /\ build \in Builds
    /\ form = [imageUrls |-> <<>>, isProcessing |-> FALSE]
    /\ jobs = {}
    /\ batches = 0
    /\ lastBatch = NoBatch
    /\ oldSlot = NoItem
    /\ canvas = NoCanvas
    /\ aform = [imageUrl |-> Str(""), isProcessing |-> FALSE]
    /\ uploads = {}
    /\ picks = <<>>

\* the page after the first render and the first run of the effect
Init ==
  \E raw \in PayloadPool :
    LET l == Loader(raw) IN
    /\ storage = raw
    /\ boot = [raw |-> raw, state |-> l.state, threw |-> l.threw]
    /\ state = l.state
    /\ crashed = l.threw
    /\ isSyncing = ~l.threw
    /\ timers = IF l.threw THEN {} ELSE {setTimeout(1, l.state, 0)}
    /\ timer = 1
    /\ nextTimer = 2
    /\ now = 0
    /\ alerts = 0
    /\ changeTimes = <<>>
    /\ writes = <<>>
    /\ lastText = <<>>
    /\ lastOp = [op |-> "mount", id |-> "", arg |-> Null, prev |-> Null, done |-> TRUE]
    /\ build \in Builds
    /\ form = [imageUrls |-> <<>>, isProcessing |-> FALSE]
    /\ jobs = {}
    /\ batches = 0
    /\ lastBatch = NoBatch
    /\ oldSlot = NoItem
    /\ canvas = NoCanvas
    /\ aform = [imageUrl |-> Str(""), isProcessing |-> FALSE]
    /\ uploads = {}
    /\ picks = <<>>

(***************************************************************************)
(* Actions                                                                 *)
(***************************************************************************)
\* setState(updater) followed by the re-run of the effect on [state]
\* variant: the effect has no dependency on state, useEffect(..., [])
Change_noEffect(res, op, id, arg) ==
  /\ ~crashed
  /\ Len(changeTimes) < MaxChanges
  /\ lastOp' = [op |-> op, id |-> id, arg |-> arg, prev |-> state, done |-> ~res.threw]
  /\ IF res.threw
     THEN /\ crashed' = TRUE
          /\ UNCHANGED <<state, changeTimes>>
     ELSE /\ state' = res.state
          /\ changeTimes' = Append(changeTimes, now)
          /\ UNCHANGED crashed
  /\ UNCHANGED <<isSyncing, timers, timer, nextTimer>>
  /\ UNCHANGED <<storage, now, alerts, boot, writes, lastText>>
  /\ UNCHANGED formVars
  /\ UNCHANGED sideVars

\* a mutator call: setState with its updater, then the effect on [state]
Change(res, op, id, arg) ==
  /\ ~crashed
  /\ Len(changeTimes) < MaxChanges
  /\ lastOp' = [op |-> op, id |-> id, arg |-> arg, prev |-> state, done |-> ~res.threw]
  /\ IF res.threw
     THEN /\ crashed' = TRUE
          /\ UNCHANGED <<state, isSyncing, timers, timer, nextTimer, changeTimes>>
     ELSE /\ state' = res.state
          /\ timers' = clearTimeout(timers, timer) \cup {setTimeout(nextTimer, res.state, now)}
          /\ timer' = nextTimer
          /\ nextTimer' = nextTimer + 1
          /\ isSyncing' = TRUE
          /\ changeTimes' = Append(changeTimes, now)
          /\ UNCHANGED crashed
  /\ UNCHANGED <<storage, now, alerts, boot, writes, lastText>>
  /\ UNCHANGED formVars
  /\ UNCHANGED sideVars

\* variant: a declined confirm still calls setState(prev => ({ ...prev }))
Declined_rearms(op, id) ==
  /\ ~crashed
  /\ Len(changeTimes) < MaxChanges
  /\ lastOp' = [op |-> op, id |-> id, arg |-> Null, prev |-> state, done |-> FALSE]
  /\ timers' = clearTimeout(timers, timer) \cup {setTimeout(nextTimer, state, now)}
  /\ timer' = nextTimer
  /\ nextTimer' = nextTimer + 1
  /\ isSyncing' = TRUE
  /\ changeTimes' = Append(changeTimes, now)
  /\ UNCHANGED <<state, storage, now, alerts, crashed, boot, writes, lastText>>
  /\ UNCHANGED formVars
  /\ UNCHANGED sideVars

\* window.confirm answered with Cancel
Declined(op, id) ==
  /\ ~crashed
  /\ lastOp' = [op |-> op, id |-> id, arg |-> Null, prev |-> state, done |-> FALSE]
  /\ lastOp' # lastOp
  /\ UNCHANGED <<state, isSyncing, storage, timers, timer, nextTimer, now, alerts,
                 crashed, boot, changeTimes, writes, lastText>>
  /\ UNCHANGED formVars
  /\ UNCHANGED sideVars

UpdateProject ==
  \E id \in ProjectIds, updated \in ProjectPool :
    Change(updateProject(state, id, updated), "updateProject", id, updated)

AddProject ==
  \E project \in ProjectPool :
    Change(addProject(state, project), "addProject", "", project)

DeleteProject ==
  \E id \in ProjectIds, confirm \in BOOLEAN :
    IF confirm THEN Change(deleteProject(state, id), "deleteProject", id, Null)
    ELSE Declined("deleteProject", id)

UpdateArchiveItem ==
  \E id \in ArchiveIds, updated \in ArchivePool :
    Change(updateArchiveItem(state, id, updated), "updateArchiveItem", id, updated)

AddArchiveItem ==
  \E item \in ArchivePool :
    Change(addArchiveItem(state, item), "addArchiveItem", "", item)

DeleteArchiveItem ==
  \E id \in ArchiveIds, confirm \in BOOLEAN :
    IF confirm THEN Change(deleteArchiveItem(state, id), "deleteArchiveItem", id, Null)
    ELSE Declined("deleteArchiveItem", id)

UpdateSettings ==
  \E st \in SettingsPool :
    Change(updateSettings(state, st[1], st[2]), "updateSettings", "",
           Obj([siteTitle |-> Str(st[1]), tagline |-> Str(st[2])]))

\* a timer that is due runs its callback
TimerFire ==
  \E tm \in timers :
    /\ ~crashed
    /\ tm.due <= now
    /\ LET r == TimerCallback(tm.snap, storage) IN
       /\ storage' = r.storage
       /\ isSyncing' = r.isSyncing
       /\ alerts' = IF r.alert THEN alerts + 1 ELSE alerts
       /\ writes' = Append(writes, [t |-> now, ok |-> r.ok, n |-> Len(changeTimes)])
       /\ lastText' = r.text
    /\ timers' = timers \ {tm}
    /\ UNCHANGED <<state, timer, nextTimer, now, crashed, boot, changeTimes, lastOp>>
    /\ UNCHANGED formVars
    /\ UNCHANGED sideVars

\* time passes while no timer is due
Tick ==
  /\ ~crashed
  /\ now < MaxTicks * TickMs
  /\ \A tm \in timers : tm.due > now
  /\ now' = now + TickMs
  /\ UNCHANGED <<state, isSyncing, storage, timers, timer, nextTimer, alerts,
                 crashed, boot, changeTimes, writes, lastText, lastOp>>
  /\ UNCHANGED formVars
  /\ UNCHANGED sideVars

\* the store driven within one debounce window, from every payload
NextStore ==
  \/ UpdateProject
  \/ AddProject
  \/ DeleteProject
  \/ UpdateArchiveItem
  \/ AddArchiveItem
  \/ DeleteArchiveItem
  \/ UpdateSettings

SpecStore == Init /\ [][NextStore]_vars

\* the page left alone after it was opened, from every payload
NextBoot ==
  \/ TimerFire
  \/ Tick

SpecBoot == Init /\ [][NextBoot]_vars

\* the synchronizer over time
SyncPayloads ==
  { NoItem,
    \* {"projects":[],"version":5}
    Item(<<Tok("{"), StrTok("projects"), Tok(":"), Tok("["), Tok("]"), Tok(","),
           StrTok("version"), Tok(":"), NumTok(5), Tok("}")>>) }

\* no action of Spec reads build
InitSync == Init /\ storage \in SyncPayloads /\ build = "part_001"

Next ==
  \/ AddProject
  \/ DeleteProject
  \/ UpdateSettings
  \/ TimerFire
  \/ Tick

Spec == InitSync /\ [][Next]_vars

\* the clock beyond the last tick: time passes up to the deadline of the
\* armed timer
Elapse ==
  /\ ~crashed
  /\ now >= MaxTicks * TickMs
  /\ \A tm \in timers : tm.due > now
  /\ \E tm \in timers :
       /\ \A other \in timers : tm.due <= other.due
       /\ now' = tm.due
  /\ UNCHANGED <<state, isSyncing, storage, timers, timer, nextTimer, alerts,
                 crashed, boot, changeTimes, writes, lastText, lastOp>>
  /\ UNCHANGED formVars
  /\ UNCHANGED sideVars

NextLive ==
  \/ AddProject
  \/ TimerFire
  \/ Tick
  \/ Elapse

\* time does not stop and a timer that is due runs
SpecLive ==
  /\ InitSync
  /\ [][NextLive]_vars
  /\ WF_vars(TimerFire)
  /\ WF_vars(Tick)
  /\ WF_vars(Elapse)

(***************************************************************************)
(* Project form: handleFileChange, one step per stretch between awaits     *)
(***************************************************************************)
\* the loop of batch id goes on at index i: oversize files are skipped with
\* an alert each, then either the next file is handed to the FileReader or
\* the loop is over and the batch is appended to formData.imageUrls
Proceed(others, id, files, i, newUrls) ==
  LET k == NextFile(build, files, i) IN
  /\ alerts' = alerts + (k - i)
  /\ IF k <= Len(files)
     THEN /\ jobs' = others \cup {[id |-> id, files |-> files, i |-> k,
                                   newUrls |-> newUrls, pc |-> "read"]}
          /\ form' = [form EXCEPT !.isProcessing = TRUE]
          /\ UNCHANGED lastBatch
     ELSE /\ jobs' = others
          /\ form' = [imageUrls |-> appendUrls(form.imageUrls, newUrls),
                      isProcessing |-> FALSE]
          /\ lastBatch' = [id |-> id, files |-> files, before |-> form.imageUrls,
                           after |-> appendUrls(form.imageUrls, newUrls)]

\* the change event of the file input: setIsProcessing(true), then the loop
StartBatch ==
  \E files \in FileLists :
    /\ canStartBatch(form.isProcessing)
    /\ batches < MaxBatches
    /\ batches' = batches + 1
    /\ Proceed(jobs, batches + 1, files, 1, <<>>)
    /\ UNCHANGED <<state, isSyncing, storage, timers, timer, nextTimer, now,
                   crashed, boot, changeTimes, writes, lastText, lastOp>>
    /\ UNCHANGED <<build, oldSlot>>
    /\ UNCHANGED sideVars

\* reader.onloadend: the data URL is handed to compressImage
ReadDone ==
  \E j \in jobs :
    /\ j.pc = "read"
    /\ jobs' = (jobs \ {j}) \cup {[j EXCEPT !.pc = "compress"]}
    /\ UNCHANGED appVars
    /\ UNCHANGED <<build, form, batches, lastBatch, oldSlot>>
    /\ UNCHANGED sideVars

\* the image element fires load or error: compressImage settles, or, with
\* no handler for the event, the await never returns
CompressDone ==
  \E j \in jobs :
    /\ j.pc = "compress"
    /\ LET r == compressImage(build, j.files[j.i]) IN
       IF r.settles
       THEN Proceed(jobs \ {j}, j.id, j.files, j.i + 1, pushUrl(build, j.newUrls, r.value))
       ELSE /\ jobs' = (jobs \ {j}) \cup {[j EXCEPT !.pc = "hung"]}
            /\ UNCHANGED <<alerts, form, lastBatch>>
    /\ UNCHANGED <<state, isSyncing, storage, timers, timer, nextTimer, now,
                   crashed, boot, changeTimes, writes, lastText, lastOp>>
    /\ UNCHANGED <<build, batches, oldSlot>>
    /\ UNCHANGED sideVars

\* the remove button of a thumbnail
RemoveImage ==
  \E index \in 1..Len(form.imageUrls) :
    /\ form' = [form EXCEPT !.imageUrls = removeImage(form.imageUrls, index)]
    /\ UNCHANGED appVars
    /\ UNCHANGED <<build, jobs, batches, lastBatch, oldSlot>>
    /\ UNCHANGED sideVars

InitIngest == Init /\ storage = NoItem

NextIngest ==
  \/ StartBatch
  \/ ReadDone
  \/ CompressDone
  \/ RemoveImage

SpecIngest == InitIngest /\ [][NextIngest]_vars

\* the FileReader and the image element deliver the events they owe
SpecIngestFair ==
  /\ InitIngest
  /\ [][NextIngest]_vars
  /\ WF_vars(ReadDone)
  /\ WF_vars(CompressDone)

(***************************************************************************)
(* Archive form: handleFileChange, one step per stretch between awaits     *)
(***************************************************************************)
\* the change event of the file input; the attach button is always there,
\* and the input, never reset, fires no event for the file it already holds
Attach ==
  \E file \in FilePool :
    /\ Len(picks) < MaxPicks
    /\ picks # <<>> => file # picks[Len(picks)]
    /\ picks' = Append(picks, file)
    /\ uploads' = uploads \cup {[id |-> Len(picks) + 1, file |-> file, pc |-> "read"]}
    /\ aform' = [aform EXCEPT !.isProcessing = TRUE]
    /\ UNCHANGED <<appVars, formVars, canvas>>

\* reader.onloadend: the data URL is handed to compressImage
AttachReadDone ==
  \E u \in uploads :
    /\ u.pc = "read"
    /\ uploads' = (uploads \ {u}) \cup {[u EXCEPT !.pc = "compress"]}
    /\ UNCHANGED <<appVars, formVars, canvas, aform, picks>>

\* compressImage settles: setFormData(prev => ({...prev, imageUrl:
\* compressed})) and setIsProcessing(false); or the await never returns
AttachCompressDone ==
  \E u \in uploads :
    /\ u.pc = "compress"
    /\ LET r == compressImage(build, u.file) IN
       IF r.settles
       THEN /\ uploads' = uploads \ {u}
            /\ aform' = [imageUrl |-> r.value, isProcessing |-> FALSE]
       ELSE /\ uploads' = (uploads \ {u}) \cup {[u EXCEPT !.pc = "hung"]}
            /\ UNCHANGED aform
    /\ UNCHANGED <<appVars, formVars, canvas, picks>>

InitArchive == Init /\ storage = NoItem

NextArchive ==
  \/ Attach
  \/ AttachReadDone
  \/ AttachCompressDone

SpecArchive == InitArchive /\ [][NextArchive]_vars

(***************************************************************************)
(* Image codec: the canvas compressImage draws a decoded image on          *)
(***************************************************************************)
\* img.onload of a compressImage call made by one of the forms
Encode ==
  \E w \in WidthPool, h \in HeightPool, caller \in {"ProjectForm", "ArchiveForm"} :
    /\ canvas' = [img |-> [width |-> w, height |-> h],
                  maxWidth |-> maxWidthOf(build, caller),
                  out |-> scale(w, h, maxWidthOf(build, caller))]
    /\ UNCHANGED <<appVars, formVars, aform, uploads, picks>>

InitCodec == Init /\ storage = NoItem

NextCodec == Encode

SpecCodec == InitCodec /\ [][NextCodec]_vars

(***************************************************************************)
(* Admin view: handleImport and the page reload it ends in                 *)
(***************************************************************************)
\* window.location.reload(): the page starts again from what the slot
\* STORAGE_KEY holds; timers, form and running batches of the old page are
\* gone
Reload(st) ==
  LET l == Loader(st) IN
  /\ boot' = [raw |-> st, state |-> l.state, threw |-> l.threw]
  /\ state' = l.state
  /\ crashed' = l.threw
  /\ isSyncing' = ~l.threw
  /\ timers' = IF l.threw THEN {} ELSE {setTimeout(1, l.state, now)}
  /\ timer' = 1
  /\ nextTimer' = 2
  /\ changeTimes' = <<>>
  /\ writes' = <<>>
  /\ lastText' = <<>>
  /\ form' = [imageUrls |-> <<>>, isProcessing |-> FALSE]
  /\ jobs' = {}
  /\ lastBatch' = NoBatch
  /\ aform' = [imageUrl |-> Str(""), isProcessing |-> FALSE]
  /\ uploads' = {}

Import ==
  \E text \in ImportPool, confirm \in BOOLEAN :
    LET r == handleImport(build, text, confirm)
        doc == JSONparse(text)
    IN
    /\ ~crashed
    /\ alerts < MaxAlerts
    /\ lastOp' = [op |-> "import", id |-> "",
                  arg |-> IF doc.ok THEN doc.v ELSE Undef,
                  prev |-> state, done |-> r.write]
    /\ alerts' = IF r.alert THEN alerts + 1 ELSE alerts
    /\ storage' = IF r.write /\ r.key = STORAGE_KEY THEN Item(r.text) ELSE storage
    /\ oldSlot' = IF r.write /\ r.key # STORAGE_KEY THEN Item(r.text) ELSE oldSlot
    /\ IF r.write
       THEN Reload(storage')
       ELSE UNCHANGED <<state, isSyncing, timers, timer, nextTimer, crashed, boot,
                        changeTimes, writes, lastText, form, jobs, lastBatch,
                        aform, uploads>>
    /\ UNCHANGED <<now, build, batches, canvas, picks>>

InitImport == Init /\ storage \in SyncPayloads

NextImport ==
  \/ Import
  \/ AddProject
  \/ UpdateSettings

SpecImport == InitImport /\ [][NextImport]_vars

(***************************************************************************)
(* Properties                                                              *)
(***************************************************************************)
Last(q) == q[Len(q)]
WriteStep == Len(writes') = Len(writes) + 1
ChangeStep == Len(changeTimes') = Len(changeTimes) + 1
\* time of the most recent state change, the first render counting as one
LatestChange == IF changeTimes = <<>> THEN 0 ELSE Last(changeTimes)
\* the last three state changes came 100 ms apart
BurstStart == changeTimes[Len(changeTimes) - 2]
Burst ==
  /\ Len(changeTimes) >= 3
  /\ changeTimes[Len(changeTimes) - 1] = BurstStart + 100
  /\ changeTimes[Len(changeTimes)] = BurstStart + 200
\* the writes made after the first change of that burst
BurstWrites ==
  SelectSeq(writes, LAMBDA w : w.n >= Len(changeTimes) - 2)

\* C1: when state changes arrive at t, t+100 ms and t+200 ms and none after,
\* then once t+700 ms has passed exactly one write has been made since the
\* first of them, it was made at t+700 ms, and the text written is the
\* serialization of the state as of the last change (which the slot holds
\* when the write succeeded).
C1_DebounceBurst ==
  (Burst /\ now > BurstStart + 700) =>
    /\ Len(BurstWrites) = 1
    /\ BurstWrites[1].t = BurstStart + 700
    /\ lastText = JSONstringify(state)
    /\ (BurstWrites[1].ok => storage = Item(JSONstringify(state)))

C1_Witness ==
  /\ Burst
  /\ now > BurstStart + 700
  /\ writes # <<>>
  /\ Last(writes).ok
  /\ Last(writes).t = BurstStart + 700

\* C2: a state change cancels the pending timer and arms a new one for the
\* new state, so that every write is made a full window after the most
\* recent change and writes the serialization of the state current at the
\* moment of the write; a snapshot superseded inside the window is never
\* written.
C2_Step ==
  /\ ChangeStep =>
       timers' = {[id |-> timer', due |-> now + 500, snap |-> state']}
  /\ WriteStep =>
       /\ lastText' = JSONstringify(state)
       /\ now = LatestChange + 500

C2_LatestSnapshotOnly == [][C2_Step]_vars

\* a write has been made for a change that superseded another one inside
\* the window
C2_Witness ==
  \E i \in 1..Len(writes) :
    /\ writes[i].n >= 2
    /\ changeTimes[writes[i].n] - changeTimes[writes[i].n - 1] < 500
    /\ changeTimes[writes[i].n] > changeTimes[writes[i].n - 1]

\* C3: when the last thing the synchronizer did was to write the state
\* successfully and no state change came after that write, the State Loader
\* applied to the storage slot returns a state equal to the in-memory state.
C3_RoundTrip ==
  (writes # <<>> /\ Last(writes).ok /\ Last(writes).n = Len(changeTimes)) =>
    LET l == Loader(storage) IN ~l.threw /\ l.state = state

C3_Witness ==
  /\ writes # <<>>
  /\ Last(writes).ok
  /\ Last(writes).n = Len(changeTimes)
  /\ Len(changeTimes) >= 1
  /\ state # defaultState
  /\ state # boot.state
  /\ Loader(storage).state = state

\* C4: a write fails exactly when the serialized state exceeds the quota;
\* the failing write leaves the in-memory state and the storage slot as they
\* were and shows one notice; every state change arms a timer, and the write
\* of a state that fits succeeds and stores that state.
C4_Step ==
  /\ WriteStep =>
       LET w == Last(writes')
           text == JSONstringify(state) IN
       /\ w.ok <=> (Len(text) <= Quota)
       /\ ~w.ok => (state' = state /\ storage' = storage /\ alerts' = alerts + 1)
       /\ w.ok => (state' = state /\ storage' = Item(text) /\ alerts' = alerts)
  /\ ChangeStep => \E tm \in timers' : tm.snap = state'

C4_QuotaExceeded == [][C4_Step]_vars

\* a failed write, then a state change, then a successful write
C4_Witness ==
  \E i, j \in 1..Len(writes) :
    /\ i < j
    /\ ~writes[i].ok
    /\ writes[j].ok
    /\ writes[j].n > writes[i].n
    /\ alerts >= 1
    /\ storage = Item(JSONstringify(state))

\* C5: the syncing signal is true exactly when a debounce timer is armed.
C5_SyncingSignal == isSyncing <=> (timers # {})

C5_Witness ==
  /\ ~isSyncing
  /\ timers = {}
  /\ writes # <<>>
  /\ ~Last(writes).ok
  /\ changeTimes # <<>>

\* the persisted value read at startup, parsed
BootParsed == JSONparse(boot.raw.text)
BootHasProjects ==
  /\ boot.raw.has
  /\ BootParsed.ok
  /\ BootParsed.v.t = "obj"
  /\ "projects" \in DOMAIN BootParsed.v.o
  /\ BootParsed.v.o["projects"].t = "arr"

\* C6: the State Loader returns the default dataset, without throwing, when
\* the persisted value is absent, is not parseable as JSON, or parses to a
\* value whose projects field is absent or not a sequence.
C6_LoaderFallback ==
  ~BootHasProjects => (boot.state = defaultState /\ ~boot.threw)

\* the page was opened on a truncated text
C6_Witness ==
  /\ boot.raw.has
  /\ boot.raw.text # <<>>
  /\ ~BootParsed.ok
  /\ boot.state = defaultState
  /\ lastOp.op = "mount"

\* C7: when the persisted value passes the shape check, the loaded state has
\* the fields of the default dataset and of the payload, each field of the
\* payload with the payload's value and every other one with the default's.
C7_LoaderMerge ==
  BootHasProjects =>
    /\ ~boot.threw
    /\ boot.state.t = "obj"
    /\ DOMAIN boot.state.o = (DOMAIN defaultState.o) \cup (DOMAIN BootParsed.v.o)
    /\ \A k \in DOMAIN boot.state.o :
         boot.state.o[k] = IF k \in DOMAIN BootParsed.v.o
                           THEN BootParsed.v.o[k] ELSE defaultState.o[k]

\* the payload has no services and another project list than the default
C7_Witness ==
  /\ BootHasProjects
  /\ "services" \notin DOMAIN BootParsed.v.o
  /\ boot.state.o["services"] = INITIAL_SERVICES
  /\ boot.state.o["projects"] # INITIAL_PROJECTS
  /\ lastOp.op = "mount"

\* C8: loading any persisted payload and applying any sequence of mutators
\* never raises an uncaught fault.
C8_NeverCrashes == ~crashed

\* C9: after addProject(project) the projects sequence is the given project
\* followed by the previous projects in their previous order.
C9_AddProjectPrepends ==
  lastOp.op = "addProject" =>
    /\ lastOp.done
    /\ Get(state, "projects") = Arr(<<lastOp.arg>> \o Get(lastOp.prev, "projects").a)

C9_Witness ==
  /\ lastOp.op = "addProject"
  /\ Len(Get(lastOp.prev, "projects").a) >= 2
  /\ Len(Get(state, "projects").a) = Len(Get(lastOp.prev, "projects").a) + 1

\* C10: updateProject(id, updated), once carried out, keeps the length of
\* projects, puts updated at every position whose element had the id and
\* keeps every other element; when no element had the id the state equals
\* the previous state.
C10_UpdateProjectReplaces ==
  (lastOp.op = "updateProject" /\ lastOp.done) =>
    LET old == Get(lastOp.prev, "projects").a
        new == Get(state, "projects").a IN
    /\ Len(new) = Len(old)
    /\ \A i \in 1..Len(old) :
         new[i] = IF Get(old[i], "id") = Str(lastOp.id) THEN lastOp.arg ELSE old[i]
    /\ (\A i \in 1..Len(old) : Get(old[i], "id") # Str(lastOp.id)) => state = lastOp.prev

C10_Witness ==
  /\ lastOp.op = "updateProject"
  /\ lastOp.done
  /\ state # lastOp.prev
  /\ Len(Get(state, "projects").a) >= 2

\* the indices of coll whose element does not carry the id
KeptIdx(coll, id) == {i \in 1..Len(coll) : Get(coll[i], "id") # Str(id)}

\* new is coll without the elements that carry the id, the others in order
IsRemoval(new, coll, id) ==
  /\ Len(new) = Cardinality(KeptIdx(coll, id))
  /\ \A k \in KeptIdx(coll, id) :
       new[Cardinality({i \in KeptIdx(coll, id) : i <= k})] = coll[k]

\* new is coll with updated at every position whose element carried the id
IsReplacement(new, coll, id, updated) ==
  /\ Len(new) = Len(coll)
  /\ \A i \in 1..Len(coll) :
       new[i] = IF Get(coll[i], "id") = Str(id) THEN updated ELSE coll[i]

\* every field but the named ones is the same in s and t
SameExcept(s, t, fields) ==
  /\ DOMAIN s.o = DOMAIN t.o
  /\ \A k \in DOMAIN s.o \ fields : s.o[k] = t.o[k]

\* C11: deleteProject(id), once carried out, leaves in projects no element
\* with that id and keeps every other element, in the order they had.
C11_DeleteProjectRemoves ==
  (lastOp.op = "deleteProject" /\ lastOp.done) =>
    LET old == Get(lastOp.prev, "projects").a
        new == Get(state, "projects").a IN
    /\ IsRemoval(new, old, lastOp.id)
    /\ \A i \in 1..Len(new) : Get(new[i], "id") # Str(lastOp.id)

\* two elements carried the id and another one stayed
C11_Witness ==
  /\ lastOp.op = "deleteProject"
  /\ lastOp.done
  /\ Len(Get(state, "projects").a) >= 1
  /\ Len(Get(lastOp.prev, "projects").a) >= Len(Get(state, "projects").a) + 2

\* C12: addProject(p) followed by deleteProject(p.id), for a p whose id no
\* element of projects carries, gives back the projects it started from.
C12_AddThenDelete ==
  [][ ( /\ lastOp.op = "addProject"
        /\ lastOp.done
        /\ IsArray(Get(lastOp.prev, "projects"))
        /\ \A i \in 1..Len(Get(lastOp.prev, "projects").a) :
             Get(Get(lastOp.prev, "projects").a[i], "id") # Get(lastOp.arg, "id")
        /\ lastOp'.op = "deleteProject"
        /\ lastOp'.done
        /\ Str(lastOp'.id) = Get(lastOp.arg, "id") )
      => Get(state', "projects") = Get(lastOp.prev, "projects") ]_vars

\* a delete that took away exactly the head of a list of three
C12_Witness ==
  /\ lastOp.op = "deleteProject"
  /\ lastOp.done
  /\ Len(Get(state, "projects").a) = 2
  /\ Get(lastOp.prev, "projects").a =
       <<Project(lastOp.id, "NEXT")>> \o Get(state, "projects").a

ArchiveOps == {"addArchiveItem", "updateArchiveItem", "deleteArchiveItem"}

\* C13: addArchiveItem prepends to archiveItems, updateArchiveItem replaces
\* every element with the id (none: no change), deleteArchiveItem removes
\* every element with the id; each, once carried out, leaves projects,
\* services, siteTitle and tagline as they were.
C13_ArchiveMutators ==
  (lastOp.op \in ArchiveOps /\ lastOp.done) =>
    LET old == Get(lastOp.prev, "archiveItems").a
        new == Get(state, "archiveItems").a IN
    /\ SameExcept(state, lastOp.prev, {"archiveItems"})
    /\ lastOp.op = "addArchiveItem" => new = <<lastOp.arg>> \o old
    /\ lastOp.op = "updateArchiveItem" => IsReplacement(new, old, lastOp.id, lastOp.arg)
    /\ lastOp.op = "deleteArchiveItem" => IsRemoval(new, old, lastOp.id)

\* an archive item replaced in a state whose projects were changed before
C13_Witness ==
  /\ lastOp.op = "updateArchiveItem"
  /\ lastOp.done
  /\ state # lastOp.prev
  /\ Get(state, "projects") # Get(boot.state, "projects")

\* C14: updateSettings(siteTitle, tagline) sets the two fields to its
\* arguments and leaves projects, archiveItems and services as they were.
C14_UpdateSettings ==
  lastOp.op = "updateSettings" =>
    /\ lastOp.done
    /\ Get(state, "siteTitle") = Get(lastOp.arg, "siteTitle")
    /\ Get(state, "tagline") = Get(lastOp.arg, "tagline")
    /\ SameExcept(state, lastOp.prev, {"siteTitle", "tagline"})

\* settings changed in a state whose projects were changed before
C14_Witness ==
  /\ lastOp.op = "updateSettings"
  /\ Get(lastOp.prev, "tagline") # Get(state, "tagline")
  /\ Get(state, "projects") # Get(boot.state, "projects")

\* no two elements of coll carry the same id
UniqueIds(coll) ==
  \A i, j \in 1..Len(coll) : i # j => Get(coll[i], "id") # Get(coll[j], "id")

\* C15: when the loaded projects carry pairwise different ids, so do the
\* projects of every state the project mutators lead to.
C15_UniqueIds ==
  (IsArray(Get(boot.state, "projects")) /\ UniqueIds(Get(boot.state, "projects").a)) =>
    UniqueIds(Get(state, "projects").a)

\* what the last finished batch added to imageUrls
Appended == SubSeq(lastBatch.after, Len(lastBatch.before) + 1, Len(lastBatch.after))
\* the encoded strings of the files of the last finished batch, in input order
Encoded == [i \in 1..Len(lastBatch.files) |-> Str(lastBatch.files[i].enc)]
\* the position in the input of the file that encodes to e
PosOf(e) == CHOOSE p \in 1..Len(Encoded) : Encoded[p] = e
Oversize(file) == file.size > MaxFileSize

\* C16: a finished batch leaves the images that were present in place and in
\* order, and puts after them the encoded strings of its files in the order
\* of the files, every file that is neither oversize nor undecodable among
\* them.
C16_IngestionOrder ==
  lastBatch.id # 0 =>
    /\ Len(lastBatch.after) >= Len(lastBatch.before)
    /\ SubSeq(lastBatch.after, 1, Len(lastBatch.before)) = lastBatch.before
    /\ \A j \in 1..Len(Appended) : \E p \in 1..Len(Encoded) : Encoded[p] = Appended[j]
    /\ \A j, k \in 1..Len(Appended) : j < k => PosOf(Appended[j]) < PosOf(Appended[k])
    /\ \A p \in 1..Len(Encoded) :
         (lastBatch.files[p].decodable /\ ~Oversize(lastBatch.files[p]))
           => \E j \in 1..Len(Appended) : Appended[j] = Encoded[p]

\* two strings appended behind an image that was there before
C16_Witness ==
  /\ lastBatch.id # 0
  /\ Len(lastBatch.before) >= 1
  /\ Len(Appended) >= 2

\* C17: a file of more than 10 MiB is never handed to the FileReader or
\* the codec, a finished batch holds no string of such a file, and the
\* files after it are still processed.
C17_OversizeSkipped ==
  /\ \A j \in jobs : ~Oversize(j.files[j.i])
  /\ \A p \in 1..Len(Encoded) :
       Oversize(lastBatch.files[p]) =>
         \A j \in 1..Len(Appended) : Appended[j] # Encoded[p]

\* C18: a file that fails to decode makes the codec answer with the empty
\* string, which the queue drops: no batch is left waiting for the codec,
\* and no empty string enters newUrls or imageUrls.
C18_DecodeFailureDropped ==
  /\ \A j \in jobs : j.pc # "hung"
  /\ \A j \in jobs : \A i \in 1..Len(j.newUrls) : j.newUrls[i] # Str("")
  /\ \A i \in 1..Len(form.imageUrls) : form.imageUrls[i] # Str("")

\* C19: isProcessing is true exactly while a batch is under way, and while
\* it is true the form offers no way to start another batch.
C19_IsProcessing ==
  /\ form.isProcessing <=> jobs # {}
  /\ Cardinality(jobs) <= 1
  /\ form.isProcessing => ~canStartBatch(form.isProcessing)

\* a batch under way while the form could still take another one
C19_Witness ==
  /\ form.isProcessing
  /\ batches < MaxBatches
  /\ \E j \in jobs : j.pc = "compress" /\ j.i = 2

\* C20: after an accepted import of a document whose projects is a
\* sequence, and the reload it ends in, every field of the document is the
\* field of the loaded state.
C20_ImportSameSlot ==
  (lastOp.op = "import" /\ lastOp.done /\ IsArray(Get(lastOp.arg, "projects"))) =>
    \A k \in DOMAIN lastOp.arg.o : Get(state, k) = lastOp.arg.o[k]

\* C21: the import of a text that is not valid JSON shows one notice and
\* changes nothing else: both storage slots, the in-memory state, the
\* timers and what the page was loaded from stay as they were (no reload).
C21_Step ==
  (lastOp'.op = "import" /\ lastOp'.arg = Undef) =>
    /\ alerts' = alerts + 1
    /\ ~lastOp'.done
    /\ storage' = storage
    /\ oldSlot' = oldSlot
    /\ state' = state
    /\ boot' = boot
    /\ timers' = timers
    /\ changeTimes' = changeTimes

C21_ImportInvalidJson == [][C21_Step]_vars

\* an invalid text was refused by a page whose state had been changed
C21_Witness ==
  /\ lastOp.op = "import"
  /\ lastOp.arg = Undef
  /\ alerts >= 1
  /\ changeTimes # <<>>
  /\ state # boot.state

\* C22: the canvas of a decoded image of width w and height h is at most
\* maxWidth wide; it is w by h when w <= maxWidth, and otherwise maxWidth
\* wide and as high as h * maxWidth / w rounded to the nearest integer, a
\* half rounded up.
C22_CodecDimensions ==
  canvas # NoCanvas =>
    LET w == canvas.img.width
        h == canvas.img.height
        m == canvas.maxWidth
        r == canvas.out.height IN
    /\ canvas.out.width <= m
    /\ w <= m => canvas.out = [width |-> w, height |-> h]
    /\ w > m =>
         /\ canvas.out.width = m
         /\ 2 * r * w <= 2 * h * m + w
         /\ 2 * h * m + w < 2 * (r + 1) * w

\* an image scaled down whose height quotient ends in one half
C22_Witness ==
  /\ canvas # NoCanvas
  /\ canvas.img.width > canvas.maxWidth
  /\ 2 * canvas.img.height * canvas.maxWidth =
       (2 * canvas.out.height - 1) * canvas.img.width

\* the last write failed and the state has not changed since
FailedAndQuiet ==
  /\ writes # <<>>
  /\ ~Last(writes).ok
  /\ Last(writes).n = Len(changeTimes)

\* C23: a failed write leaves the storage slot and the state as they were,
\* ends with the syncing signal false and no timer armed; from then on, as
\* long as the state does not change, nothing is written, the slot keeps
\* its value, no timer is armed and the signal stays false.
C23_Step ==
  /\ (WriteStep /\ ~Last(writes').ok) =>
       /\ storage' = storage
       /\ state' = state
       /\ ~isSyncing'
       /\ timers' = {}
  /\ (FailedAndQuiet /\ ~ChangeStep) =>
       /\ ~WriteStep
       /\ storage' = storage
       /\ state' = state
       /\ ~isSyncing'
       /\ timers' = {}

C23_NoRetry == [][C23_Step]_vars

\* a full debounce window has passed since the failed write
C23_Witness ==
  /\ FailedAndQuiet
  /\ now >= Last(writes).t + Delay
  /\ storage # Item(JSONstringify(state))

\* C24: a page on which nothing has been changed has, until its first
\* write, the syncing signal on and one timer armed for 500 ms after the
\* start with the loaded state; that timer makes the only write, which
\* stores the loaded state; an absent or unusable payload is thereby
\* replaced by the default dataset.
C24_StartsPending ==
  changeTimes = <<>> =>
    /\ state = boot.state
    /\ writes = <<>> =>
         /\ isSyncing
         /\ timers = {[id |-> 1, due |-> Delay, snap |-> boot.state]}
         /\ storage = boot.raw
         /\ now <= Delay
    /\ writes # <<>> =>
         /\ Len(writes) = 1
         /\ writes[1].t = Delay
         /\ writes[1].ok
         /\ timers = {}
         /\ ~isSyncing
         /\ storage = Item(JSONstringify(boot.state))
         /\ ~BootHasProjects => storage = Item(JSONstringify(defaultState))

\* a payload that does not parse has been replaced by the default dataset
C24_Witness ==
  /\ changeTimes = <<>>
  /\ boot.raw.has
  /\ boot.raw.text # <<>>
  /\ ~BootParsed.ok
  /\ storage = Item(JSONstringify(defaultState))
  /\ now > Delay

\* the slot holds the serialization of the in-memory state
Persisted == storage = Item(JSONstringify(state))

\* C25: whenever the syncing signal is false and the last write succeeded,
\* the slot holds the serialization of the state; and once the state
\* changes no more, the signal eventually is false for good, with the slot
\* holding the serialization of the state unless the last write failed.
C25_EventualPersistence ==
  /\ []((~isSyncing /\ writes # <<>> /\ Last(writes).ok) => Persisted)
  /\ <>[](~isSyncing /\ writes # <<>> /\ (Last(writes).ok => Persisted))

\* three changes have been written and the page is at rest
C25_Witness ==
  /\ Len(changeTimes) = MaxChanges
  /\ ~isSyncing
  /\ writes # <<>>
  /\ Last(writes).ok
  /\ Last(writes).n = MaxChanges
  /\ Persisted

\* C26: a batch that is under way comes to its end: the processing signal
\* goes back to false.
C26_BatchTerminates == form.isProcessing ~> ~form.isProcessing

\* C27: in the archive form the processing signal is true as long as an
\* upload is under way, and when no upload is under way any more the
\* imageUrl is the encoding of the file selected last.
C27_OverlappingUploads ==
  /\ uploads # {} => aform.isProcessing
  /\ (uploads = {} /\ picks # <<>> /\ Last(picks).decodable) =>
       aform.imageUrl = Str(Last(picks).enc)

DeleteOps == {"deleteProject", "deleteArchiveItem"}

\* C28: a deleteProject or deleteArchiveItem whose confirmation is declined
\* leaves the state as it was, arms no timer and clears none, and does not
\* touch the syncing signal or the storage slot.
C28_Step ==
  (lastOp' # lastOp /\ lastOp'.op \in DeleteOps /\ ~lastOp'.done /\ crashed' = crashed) =>
    /\ state' = state
    /\ timers' = timers
    /\ timer' = timer
    /\ nextTimer' = nextTimer
    /\ isSyncing' = isSyncing
    /\ changeTimes' = changeTimes
    /\ storage' = storage

C28_DeclinedDelete == [][C28_Step]_vars

\* a delete of an archive item declined on a page with changes made before
C28_Witness ==
  /\ lastOp.op = "deleteArchiveItem"
  /\ ~lastOp.done
  /\ ~crashed
  /\ changeTimes # <<>>
  /\ state # boot.state
  /\ \E i \in 1..Len(Get(state, "archiveItems").a) :
       Get(Get(state, "archiveItems").a[i], "id") = Str(lastOp.id)

====
